---- MODULE Spec2Model ----
(***************************************************************************)
(* Model of freecad.trails:                                                *)
(*   - the Surface document object (geomatics/surface/surface.py) and its  *)
(*     view provider: the property recompute chain driven by onChanged;    *)
(*   - the AlignmentTracker (project/trackers/alignment_tracker.py): the   *)
(*     tracker set built from an alignment, picking and dragging;          *)
(*   - the WireTracker (project/trackers/wire_tracker.py): binding to node *)
(*     trackers, selection propagation and dragging;                       *)
(*   - the EditAlignmentTask (project/tasks/alignment/                     *)
(*     edit_alignment_task.py): the edit session over the document.        *)
(***************************************************************************)
EXTENDS Integers, Sequences, FiniteSets, TLC

VARIABLES
    \* Surface data properties (surface.py, Surface.__init__)
    Points, Delaunay, Triangles, MaxLength, MaxAngle, ContourInterval,
    ContourPoints, ContourVertices,
    \* scene graph fields the view provider pushes to (ViewProviderSurface.attach)
    geo_coords, coordIndex, cont_coords, cont_lines,
    \* calls of the geometry primitives made by the last external write
    calls,
    \* the alignment handed to AlignmentTracker.__init__: its geometry records
    geometry,
    \* AlignmentTracker.trackers: Nodes, Tangents, Curves (empty before the build)
    trackers,
    \* AlignmentTracker.drag_curves, as 0-based indices into trackers.Curves
    drag_curves,
    \* the shared MouseState as the last event left it for the handlers:
    \* component, button1 (state, dragging), ctrlDown
    mouse,
    \* lifecycle of the tracker: "new" (inside __init__), "live"
    phase,
    \* the handler that ran last, with the locals of button_event
    last,
    \* the validate calls made by the handler that ran last
    validated,
    \* AlignmentTracker.callbacks and the event callbacks the view holds for it
    callbacks, view_callbacks,
    \* the names of the trackers whose finalize has run
    finalized,
    \* a WireTracker on its own: its fields and its SelectState classification
    wire,
    \* the node trackers the wire can be bound to: point and selected
    wnodes,
    \* the WireTracker method that ran last, with its arguments and result
    wlast,
    \* the document of the edit task: its objects with their view styles
    doc,
    \* the host the task talks to: selection role and the view's callbacks
    host,
    \* the fields of the EditAlignmentTask
    task,
    \* a node edit tracker: the coordinate field, the colour and the marker
    edit,
    \* the method of the edit tracker that ran last
    elast

alignVars == <<geometry, trackers, drag_curves, mouse, phase, last, validated,
               callbacks, view_callbacks, finalized>>

wireVars == <<wire, wnodes, wlast>>

taskVars == <<doc, host, task>>

editVars == <<edit, elast>>

surfVars == <<Points, Delaunay, Triangles, MaxLength, MaxAngle, ContourInterval,
              ContourPoints, ContourVertices,
              geo_coords, coordIndex, cont_coords, cont_lines, calls>>

\* what the actions of one part leave alone
notSurfVars == <<alignVars, wireVars, taskVars, editVars>>

notAlignVars == <<surfVars, wireVars, taskVars, editVars>>

notWireVars == <<surfVars, alignVars, taskVars, editVars>>

notTaskVars == <<surfVars, alignVars, wireVars, editVars>>

notEditVars == <<surfVars, alignVars, wireVars, taskVars>>

(***************************************************************************)
(* Bounds of the model                                                     *)
(***************************************************************************)
\* longest point list written to Surface.Points
MaxPts == 3
\* longest geometry list of an alignment
MaxGeo == 3
\* most curve references the drag set is let grow to
MaxDrag == 3
\* longest geometry list of an alignment whose tangents are dragged
MaxDragGeo == 1
\* most objects of a document before the edit session
MaxObjs == 2
\* most moves of the edit tracker between two calls of set
MaxMoves == 2
\* most calls of finish on one task
MaxFinish == 3
\* the whole numbers up to 2^24 are exact in single precision
Float32Exact == 16777216
\* most points of a wire on its own
MaxWirePts == 3
\* the node trackers a wire on its own can be bound to
MaxWireNodes == 2

(***************************************************************************)
(* Generic helpers                                                         *)
(***************************************************************************)
Range(s) == {s[i] : i \in DOMAIN s}

Min2(a, b) == IF a < b THEN a ELSE b

Max2(a, b) == IF a > b THEN a ELSE b

\* sequences over S of length at most n, without repeated elements
InjSeqs(S, n) == {s \in UNION {[1..m -> S] : m \in 0..n} :
                    \A i, j \in DOMAIN s : i # j => s[i] # s[j]}

(***************************************************************************)
(* SURFACE                                                                 *)
(*                                                                         *)
(* A point is <<x, y, z>>.  Point lists are 1-based here; the vertex       *)
(* indices stored in Delaunay and Triangles are 0-based as in the code.    *)
(* Delaunay and Triangles are flat integer lists (App::PropertyIntegerList)*)
(* holding three vertex indices per triangle.                              *)
(***************************************************************************)
PointUniverse == {<<0, 0, 1>>, <<2, 0, 3>>, <<4, 0, 1>>, <<0, 2, 5>>}

PointLists == InjSeqs(PointUniverse, MaxPts)

MaxLengthVals == {1, 5, 50000}

MaxAngleVals == {90, 170}

ContourIntervalVals == {0, 2, 4}

\* the value of Points[i] for a 0-based vertex index i
Pt(points, i) == points[i + 1]

ValidIdx(points, i) == i >= 0 /\ i < Len(points)

\* the triangles <<a, b, c>> held in a flat index list, in list order
TripleSeq(flat) == [t \in 1..(Len(flat) \div 3) |->
                       <<flat[3 * t - 2], flat[3 * t - 1], flat[3 * t]>>]

TripleSet(flat) == Range(TripleSeq(flat))

RECURSIVE Flatten(_)
Flatten(ts) == IF ts = <<>> THEN <<>> ELSE Head(ts) \o Flatten(Tail(ts))

\* ---- 4.1 triangulate ---------------------------------------------------
\* twice the signed area of p, q, r in the (x, y) projection
Orient(p, q, r) == (q[1] - p[1]) * (r[2] - p[2]) - (q[2] - p[2]) * (r[1] - p[1])

Det3(a, b, c) ==   a[1] * (b[2] * c[3] - b[3] * c[2])
                 - a[2] * (b[1] * c[3] - b[3] * c[1])
                 + a[3] * (b[1] * c[2] - b[2] * c[1])

\* d lies strictly inside the circumcircle of the counter-clockwise a, b, c
InCircle(a, b, c, d) ==
    LET row(p) == <<p[1] - d[1], p[2] - d[2],
                    (p[1] - d[1]) * (p[1] - d[1]) + (p[2] - d[2]) * (p[2] - d[2])>>
    IN  Det3(row(a), row(b), row(c)) > 0

\* the Delaunay triples of a point list: counter-clockwise index triples whose
\* circumcircle holds no other point; none for fewer than 3 or collinear points
DelaunayTriples(points) ==
    LET n == Len(points)
        ccw(i, j, k) == IF Orient(Pt(points, i), Pt(points, j), Pt(points, k)) > 0
                        THEN <<i, j, k>> ELSE <<i, k, j>>
    IN  {ccw(i, j, k) : <<i, j, k>> \in
           {t \in (0..(n - 1)) \X (0..(n - 1)) \X (0..(n - 1)) :
              /\ t[1] < t[2] /\ t[2] < t[3]
              /\ Orient(Pt(points, t[1]), Pt(points, t[2]), Pt(points, t[3])) # 0
              /\ LET c == ccw(t[1], t[2], t[3])
                 IN  \A m \in 0..(n - 1) :
                        m \notin {t[1], t[2], t[3]} =>
                           ~InCircle(Pt(points, c[1]), Pt(points, c[2]),
                                     Pt(points, c[3]), Pt(points, m))}}

TripleLess(s, t) ==
    \/ s[1] < t[1]
    \/ s[1] = t[1] /\ s[2] < t[2]
    \/ s[1] = t[1] /\ s[2] = t[2] /\ s[3] < t[3]

RECURSIVE SortTriples(_)
SortTriples(S) ==
    IF S = {} THEN <<>>
    ELSE LET m == CHOOSE t \in S : \A u \in S \ {t} : TripleLess(t, u)
         IN  <<m>> \o SortTriples(S \ {m})

triangulate(points) == Flatten(SortTriples(DelaunayTriples(points)))

\* ---- 4.1 filter_triangles (test_delaunay) ------------------------------
Sub(p, q) == <<p[1] - q[1], p[2] - q[2], p[3] - q[3]>>

Dot(u, v) == u[1] * v[1] + u[2] * v[2] + u[3] * v[3]

\* cos(amax)^2 * 10000 for the thresholds in use
CosSqE4(amax) == IF amax = 90 THEN 0 ELSE 9698

\* the angle between u and v exceeds amax degrees (amax >= 90)
AngleExceeds(u, v, amax) ==
    /\ Dot(u, v) < 0
    /\ Dot(u, v) * Dot(u, v) * 10000 > CosSqE4(amax) * Dot(u, u) * Dot(v, v)

\* the edge p q is longer than lmax, compared on the squares; beyond 46340
\* the square of lmax exceeds every 32-bit squared length
EdgeExceeds(p, q, lmax) ==
    lmax <= 46340 /\ Dot(Sub(p, q), Sub(p, q)) > lmax * lmax

KeepTriangle(points, t, lmax, amax) ==
    /\ \A i \in 1..3 : ValidIdx(points, t[i])
    /\ LET a == Pt(points, t[1])
           b == Pt(points, t[2])
           c == Pt(points, t[3])
       IN  /\ ~EdgeExceeds(a, b, lmax)
           /\ ~EdgeExceeds(b, c, lmax)
           /\ ~EdgeExceeds(c, a, lmax)
           /\ ~AngleExceeds(Sub(b, a), Sub(c, a), amax)
           /\ ~AngleExceeds(Sub(a, b), Sub(c, b), amax)
           /\ ~AngleExceeds(Sub(a, c), Sub(b, c), amax)

test_delaunay(points, delaunay, lmax, amax) ==
    Flatten(SelectSeq(TripleSeq(delaunay),
                      LAMBDA t : KeepTriangle(points, t, lmax, amax)))

\* ---- 4.1 extract_contours (contour_points) -----------------------------
\* A contour point is <<p, q, h>>: the point of edge p q at elevation h.
\* Point elevations are odd and intervals even, so a level never meets a vertex.
RECURSIVE SortInts(_)
SortInts(S) ==
    IF S = {} THEN <<>>
    ELSE LET m == CHOOSE x \in S : \A y \in S : x <= y
         IN  <<m>> \o SortInts(S \ {m})

Crosses(p, q, h) == (p[3] < h /\ h < q[3]) \/ (q[3] < h /\ h < p[3])

\* the contour segments of one triangle: per level, its two crossing points
TriangleContours(points, t, deltaH) ==
    IF deltaH = 0 \/ \E i \in 1..3 : ~ValidIdx(points, t[i]) THEN <<>>
    ELSE LET a == Pt(points, t[1])
             b == Pt(points, t[2])
             c == Pt(points, t[3])
             zmin == Min2(a[3], Min2(b[3], c[3]))
             zmax == Max2(a[3], Max2(b[3], c[3]))
             levels == SortInts({h \in zmin..zmax :
                                   h % deltaH = 0 /\ zmin < h /\ h < zmax})
             edges == <<<<a, b>>, <<b, c>>, <<c, a>>>>
             seg(h) == LET hit == SelectSeq(edges, LAMBDA e : Crosses(e[1], e[2], h))
                       IN  [i \in 1..Len(hit) |-> <<hit[i][1], hit[i][2], h>>]
         IN  Flatten([i \in 1..Len(levels) |-> seg(levels[i])])

\* coords, num_vert = contour_points(points, triangles, deltaH)
contour_points(points, triangles, deltaH) ==
    LET ts == TripleSeq(triangles)
        coords == Flatten([i \in 1..Len(ts) |->
                              TriangleContours(points, ts[i], deltaH)])
    IN  [coords |-> coords,
         num_vert |-> [i \in 1..(Len(coords) \div 2) |-> 2]]

\* ---- 4.2 the property store and its change notifications ---------------
\* the surface object, its view provider's fields and the call counters as one value
SurfaceObj ==
    [Points |-> Points, Delaunay |-> Delaunay, Triangles |-> Triangles,
     MaxLength |-> MaxLength, MaxAngle |-> MaxAngle,
     ContourInterval |-> ContourInterval,
     ContourPoints |-> ContourPoints, ContourVertices |-> ContourVertices,
     geo_coords |-> geo_coords, coordIndex |-> coordIndex,
     cont_coords |-> cont_coords, cont_lines |-> cont_lines,
     calls |-> calls]

NoCalls == [triangulate |-> 0, test_delaunay |-> 0, contour_points |-> 0]

Count(o, fn) == [o EXCEPT !.calls[fn] = @ + 1]

\* ViewProviderSurface.updateData(obj, prop)
updateData(o, prop) ==
    LET o1 == IF prop = "Points" /\ o.Points # <<>>
              THEN [o EXCEPT !.geo_coords = o.Points] ELSE o
        o2 == IF prop = "Triangles"
              THEN [o1 EXCEPT !.coordIndex = o1.Triangles] ELSE o1
    IN  IF prop \in {"Points", "Triangles", "ContourInterval"}
        THEN [o2 EXCEPT !.cont_coords = o2.ContourPoints,
                        !.cont_lines = o2.ContourVertices]
        ELSE o2

RECURSIVE onChanged(_, _), setProperty(_, _, _)

\* an assignment that notifies the proxy twice
setPropertyTwice(o, prop, value) ==
    updateData(onChanged(onChanged([o EXCEPT ![prop] = value], prop), prop), prop)

\* obj.<prop> = value: the host stores the value, then notifies the proxy
\* (Surface.onChanged) and the view provider (updateData), synchronously
setProperty(o, prop, value) ==
    updateData(onChanged([o EXCEPT ![prop] = value], prop), prop)

\* Surface.onChanged(obj, prop)
onChanged(o, prop) ==
    LET points == o.Points
        lmax == o.MaxLength
        amax == o.MaxAngle
        deltaH == o.ContourInterval
        o1 == IF prop = "Points" /\ points # <<>>
              THEN setProperty(Count(o, "triangulate"), "Delaunay",
                               triangulate(points))
              ELSE o
        o2 == IF prop \in {"Delaunay", "MaxLength", "MaxAngle"}
              THEN LET delaunay == o1.Delaunay
                   IN  IF points # <<>> /\ delaunay # <<>>
                       THEN setProperty(Count(o1, "test_delaunay"), "Triangles",
                                        test_delaunay(points, delaunay, lmax, amax))
                       ELSE o1
              ELSE o1
    IN  IF prop \in {"Points", "Triangles", "ContourInterval"}
        THEN LET triangles == o2.Triangles
             IN  IF points # <<>>
                 THEN LET r == contour_points(points, triangles, deltaH)
                      IN  setProperty(
                              setProperty(Count(o2, "contour_points"),
                                          "ContourPoints", r.coords),
                              "ContourVertices", r.num_vert)
                 ELSE o2
        ELSE o2

\* an external write that stores the value and notifies nobody
WrittenStored(prop, value) == [SurfaceObj EXCEPT ![prop] = value, !.calls = NoCalls]

\* the surface after an external write of one property
Written(prop, value) == setProperty([SurfaceObj EXCEPT !.calls = NoCalls], prop, value)

Store(o) ==
    /\ Points' = o.Points
    /\ Delaunay' = o.Delaunay
    /\ Triangles' = o.Triangles
    /\ MaxLength' = o.MaxLength
    /\ MaxAngle' = o.MaxAngle
    /\ ContourInterval' = o.ContourInterval
    /\ ContourPoints' = o.ContourPoints
    /\ ContourVertices' = o.ContourVertices
    /\ geo_coords' = o.geo_coords
    /\ coordIndex' = o.coordIndex
    /\ cont_coords' = o.cont_coords
    /\ cont_lines' = o.cont_lines
    /\ calls' = o.calls

\* Surface.__init__ and ViewProviderSurface.attach: every list empty.
\* Elevations are in half units, so ContourInterval = 1.0 is 2.
SurfInit ==
    /\ Points = <<>>
    /\ Delaunay = <<>>
    /\ Triangles = <<>>
    /\ MaxLength = 50000
    /\ MaxAngle = 170
    /\ ContourInterval = 2
    /\ ContourPoints = <<>>
    /\ ContourVertices = <<>>
    /\ geo_coords = <<>>
    /\ coordIndex = <<>>
    /\ cont_coords = <<>>
    /\ cont_lines = <<>>
    /\ calls = NoCalls

WritePoints ==
    /\ \E p \in PointLists : Store(Written("Points", p))
    /\ UNCHANGED notSurfVars

WriteMaxLength ==
    /\ \E l \in MaxLengthVals : Store(Written("MaxLength", l))
    /\ UNCHANGED notSurfVars

WriteMaxAngle ==
    /\ \E a \in MaxAngleVals : Store(Written("MaxAngle", a))
    /\ UNCHANGED notSurfVars

WriteContourInterval ==
    /\ \E h \in ContourIntervalVals : Store(Written("ContourInterval", h))
    /\ UNCHANGED notSurfVars

SurfIdle ==
    /\ Points = <<>>
    /\ Delaunay = <<>>
    /\ Triangles = <<>>
    /\ MaxLength = 0
    /\ MaxAngle = 0
    /\ ContourInterval = 0
    /\ ContourPoints = <<>>
    /\ ContourVertices = <<>>
    /\ geo_coords = <<>>
    /\ coordIndex = <<>>
    /\ cont_coords = <<>>
    /\ cont_lines = <<>>
    /\ calls = NoCalls

SurfNext ==
    \/ WritePoints
    \/ WriteMaxLength
    \/ WriteMaxAngle
    \/ WriteContourInterval

(***************************************************************************)
(* WIRE TRACKER                                                            *)
(*                                                                         *)
(* A wire is a record of the WireTracker fields together with `selected`,  *)
(* the classification SelectState holds for it.  None and the empty list   *)
(* are both <<>>: the code only tests them for truth, and no path stores   *)
(* an empty list in points.  selection_nodes holds 0-based positions in    *)
(* the list ns of node trackers; drag_node is TRUE while a drag copy       *)
(* exists.                                                                 *)
(***************************************************************************)
\* WireTracker.__init__
WireTracker(name) ==
    [name |-> name, points |-> <<>>, selection_nodes |-> <<>>,
     selection_indices |-> <<>>, selected |-> "NONE", partial_idx |-> <<>>,
     drag_node |-> FALSE, selectable |-> TRUE]

\* BaseTracker.set_selectability
set_selectability(w, select) == [w EXCEPT !.selectable = select]

\* two nodes without indices bound to the first two points
set_pointsFirstTwo(w, ns, points, nodes, indices) ==
    IF points = <<>> /\ nodes = <<>> THEN w
    ELSE LET _points == IF points = <<>>
                        THEN [j \in 1..Len(nodes) |-> ns[nodes[j] + 1].point]
                        ELSE points
             _given == IF points = <<>>
                       THEN [j \in 1..Len(nodes) |-> j - 1]
                       ELSE indices
             _indices == IF Len(nodes) = 2 /\ _given = <<>>
                         THEN <<0, 1>>
                         ELSE _given
         IN  [w EXCEPT !.points = _points,
                       !.selection_nodes = nodes,
                       !.selection_indices = _indices]

\* WireTracker.set_points
set_points(w, ns, points, nodes, indices) ==
    IF points = <<>> /\ nodes = <<>> THEN w
    ELSE LET _points == IF points = <<>>
                        THEN [j \in 1..Len(nodes) |-> ns[nodes[j] + 1].point]
                        ELSE points
             _given == IF points = <<>>
                       THEN [j \in 1..Len(nodes) |-> j - 1]
                       ELSE indices
             _indices == IF Len(nodes) = 2 /\ _given = <<>>
                         THEN <<0, Len(_points) - 1>>
                         ELSE _given
         IN  [w EXCEPT !.points = _points,
                       !.selection_nodes = nodes,
                       !.selection_indices = _indices]

\* the position in a list of n points that index _i of get_points writes to,
\* 1-based; 0 when the index is out of range
PointAt(_i, n) ==
    LET k == IF _i < 0 THEN n + _i + 1 ELSE _i + 1
    IN  IF k >= 1 /\ k <= n THEN k ELSE 0

\* the loop of get_points over selection_indices[from..]
RECURSIVE get_points_loop(_, _, _, _)
get_points_loop(w, ns, _points, j) ==
    IF j > Len(w.selection_indices) THEN [points |-> _points, result |-> "ok"]
    ELSE LET k == PointAt(w.selection_indices[j], Len(_points))
         IN  IF k = 0 \/ j > Len(w.selection_nodes)
             THEN [points |-> _points, result |-> "error"]
             ELSE get_points_loop(w, ns,
                     [_points EXCEPT ![k] = ns[w.selection_nodes[j] + 1].point],
                     j + 1)

\* the stored points returned as they are
get_pointsStored(w, ns) == [points |-> w.points, result |-> "ok"]

\* WireTracker.get_points: the list returned, which is self.points itself
get_points(w, ns) == get_points_loop(w, ns, w.points, 1)

\* BaseTracker.is_selected of a wire
is_selected(w) == w.selected # "NONE"

\* [_v.is_selected() for _v in self.selection_nodes]
BoundSelected(w, ns) ==
    [j \in 1..Len(w.selection_nodes) |-> ns[w.selection_nodes[j] + 1].selected]

\* a loop that stops after the first bound node
select_bound_nodesFirst(w, ns) ==
    [n \in 1..Len(ns) |->
        IF w.selection_nodes # <<>> /\ w.selection_nodes[1] = n - 1
        THEN [ns[n] EXCEPT !.selected = TRUE] ELSE ns[n]]

\* validate_selection on a fully selected wire: SelectState().select on
\* every bound node that is not selected
select_bound_nodes(w, ns) ==
    [n \in 1..Len(ns) |->
        IF (n - 1) \in Range(w.selection_nodes)
        THEN [ns[n] EXCEPT !.selected = TRUE] ELSE ns[n]]

\* WireTracker.validate_selection
validate_selection(w, ns) ==
    LET same == [wire |-> w, nodes |-> ns, result |-> "ok"]
        _sel == BoundSelected(w, ns)
    IN  IF w.selection_nodes = <<>> THEN same
        ELSE IF w.selected = "FULL"
        THEN [same EXCEPT !.nodes = select_bound_nodes(w, ns)]
        ELSE IF is_selected(w) THEN same
        ELSE IF (\A j \in DOMAIN _sel : _sel[j]) /\ Len(w.points) = Len(_sel)
        \* `if not _v.is_selected()` reads a name bound only inside the list
        \* comprehension above it: UnboundLocalError
        THEN [same EXCEPT !.result = "error"]
        ELSE IF \E j \in DOMAIN _sel : _sel[j]
        THEN [same EXCEPT !.wire = [w EXCEPT !.selected = "PARTIAL"]]
        ELSE same

\* a drag index list holding the index of every bound node
drag_indicesAll(w, ns) == w.selection_indices

\* _sel of start_drag: the point indices of the selected bound nodes
drag_indices(w, ns) ==
    LET picked == SelectSeq([j \in 1..Len(w.selection_nodes) |-> j],
                            LAMBDA j : ns[w.selection_nodes[j] + 1].selected)
    IN  [i \in 1..Len(picked) |-> w.selection_indices[picked[i]]]

\* WireTracker.start_drag
start_drag(w, ns) ==
    LET same == [wire |-> w, result |-> "return"]
        bound == BoundSelected(w, ns)
        inRange == \A j \in DOMAIN bound :
                      bound[j] => j <= Len(w.selection_indices)
        _sel == IF w.selection_nodes = <<>> THEN <<>> ELSE drag_indices(w, ns)
        marked == IF Len(_sel) # Len(w.points)
                  THEN [w EXCEPT !.selected = "PARTIAL", !.partial_idx = _sel]
                  ELSE w
    IN  IF w.selection_nodes = <<>> /\ ~is_selected(w) THEN same
        ELSE IF w.selection_nodes # <<>> /\ ~inRange
        THEN [same EXCEPT !.result = "error"]
        ELSE IF w.selection_nodes # <<>> /\ _sel = <<>> THEN same
        ELSE IF w.points = <<>> THEN [same EXCEPT !.result = "error"]
        ELSE [wire |-> [marked EXCEPT !.drag_node = TRUE], result |-> "started"]

\* an end of the drag that keeps the drag copy
end_dragKeep(w) == w

\* WireTracker.end_drag
end_drag(w) == [w EXCEPT !.drag_node = FALSE]

\* the method of the wire that ran last: its result, the button state of the
\* event, the wire's selection and the number of its selected bound nodes
\* when validate_selection or start_drag was entered, the arguments of
\* set_points, and the points before get_points
WHandler(op) == [op |-> op, result |-> "", state |-> "", entry |-> "",
                 count |-> -1,
                 points |-> <<>>, nodes |-> <<>>, indices |-> <<>>,
                 before |-> <<>>]

\* the points handed to set_points: none, or a polyline of 2..MaxWirePts points
WirePointLists == {<<>>} \cup {[i \in 1..m |-> 10 + i] : m \in 2..MaxWirePts}

\* the positions a node tracker is moved between
NodePositions == {0, 1}

\* the node lists handed to set_points: 0, 1 or 2 of the node trackers, in
\* the order of the tracker list
WireNodeLists ==
    {s \in InjSeqs(0..(MaxWireNodes - 1), 2) :
        \A i, j \in DOMAIN s : i < j => s[i] < s[j]}

\* explicit indices for the given nodes: one point of the wire per node, the
\* first point (0) or the last (-1)
WireIndexLists(points, nodes) ==
    {<<>>} \cup
    {ix \in [1..Len(nodes) -> {-1, 0}] :
        /\ nodes # <<>>
        /\ \A i, j \in DOMAIN ix :
              i # j => PointAt(ix[i], Len(points)) # PointAt(ix[j], Len(points))}

WireInit ==
    /\ wire = WireTracker(<<"WIRE", 0>>)
    /\ wnodes = [n \in 1..MaxWireNodes |-> [point |-> 0, selected |-> FALSE]]
    /\ wlast = WHandler("__init__")

WireIdle ==
    /\ wire = WireTracker(<<>>)
    /\ wnodes = <<>>
    /\ wlast = WHandler("")

\* the call of set_points on a wire that holds no points yet, as
\* _build_wire_tracker makes it right after the construction
SetPoints ==
    /\ wire.points = <<>>
    /\ \E points \in WirePointLists, nodes \in WireNodeLists :
         \E indices \in WireIndexLists(points, nodes) :
           /\ wire' = set_points(wire, wnodes, points, nodes, indices)
           /\ wlast' = [WHandler("set_points") EXCEPT
                           !.points = points, !.nodes = nodes,
                           !.indices = indices]
    /\ UNCHANGED wnodes
    /\ UNCHANGED notWireVars

\* a call of get_points
GetPoints ==
    /\ LET r == get_points(wire, wnodes)
       IN  /\ wire' = [wire EXCEPT !.points = r.points]
           /\ wlast' = [WHandler("get_points") EXCEPT
                           !.result = r.result, !.points = r.points,
                           !.before = wire.points]
    /\ UNCHANGED wnodes
    /\ UNCHANGED notWireVars

\* WireTracker.button_event: the base handler selects or deselects the wire
\* or leaves it, then the selection is validated on button down
WireButtonEvent ==
    /\ \E state \in {"DOWN", "UP"}, base \in {"keep", "select", "deselect"} :
         LET w == [wire EXCEPT !.selected =
                      IF base = "select" THEN "FULL"
                      ELSE IF base = "deselect" THEN "NONE" ELSE @]
             r == IF state = "DOWN" THEN validate_selection(w, wnodes)
                  ELSE [wire |-> w, nodes |-> wnodes, result |-> "ok"]
         IN  /\ wire' = r.wire
             /\ wnodes' = r.nodes
             /\ wlast' = [WHandler("button_event") EXCEPT
                             !.result = r.result, !.entry = w.selected,
                             !.state = state,
                             !.count = Cardinality({j \in DOMAIN w.selection_nodes :
                                                      BoundSelected(w, wnodes)[j]})]
    /\ UNCHANGED notWireVars

\* a call of start_drag when a drag gesture begins
WireStartDrag ==
    /\ ~wire.drag_node
    /\ LET r == start_drag(wire, wnodes)
       IN  /\ wire' = r.wire
           /\ wlast' = [WHandler("start_drag") EXCEPT
                           !.result = r.result, !.entry = wire.selected,
                           !.count = Cardinality({j \in DOMAIN wire.selection_nodes :
                                                    BoundSelected(wire, wnodes)[j]})]
    /\ UNCHANGED wnodes
    /\ UNCHANGED notWireVars

\* a call of end_drag when the gesture ends
WireEndDrag ==
    /\ wire.drag_node
    /\ wire' = end_drag(wire)
    /\ wlast' = WHandler("end_drag")
    /\ UNCHANGED wnodes
    /\ UNCHANGED notWireVars

\* a node tracker is selected or deselected by its own button handling
SelectNode ==
    /\ \E n \in DOMAIN wnodes :
         wnodes' = [wnodes EXCEPT ![n].selected = ~@]
    /\ wlast' = WHandler("select_node")
    /\ UNCHANGED wire
    /\ UNCHANGED notWireVars

\* a node tracker is moved
MoveNode ==
    /\ \E n \in DOMAIN wnodes, p \in NodePositions :
         /\ p # wnodes[n].point
         /\ wnodes' = [wnodes EXCEPT ![n].point = p]
    /\ wlast' = WHandler("move_node")
    /\ UNCHANGED wire
    /\ UNCHANGED notWireVars

\* selection and dragging of a wire
WireNext ==
    \/ SetPoints
    \/ WireButtonEvent
    \/ WireStartDrag
    \/ WireEndDrag
    \/ SelectNode

\* the points of a wire bound to moving nodes
WirePointsNext ==
    \/ SetPoints
    \/ GetPoints
    \/ MoveNode

(***************************************************************************)
(* ALIGNMENT TRACKER                                                       *)
(*                                                                         *)
(* Tracker lists are 1-based here; the indices in tracker names, in        *)
(* pi_nodes, selection_nodes and drag_curves are 0-based as in the code.   *)
(* A tracker name 'NODE-3' is <<"NODE", 3>>; no pick is <<>>.              *)
(***************************************************************************)
\* the geometry descriptions handed to the tracker: segment records of Type
\* Line or Curve; the curve at position g has the tangent length g
SegmentTypes == {"Line", "Curve"}

Geometries ==
    UNION {{[g \in 1..m |-> [Type |-> ty[g],
                             Tangent |-> IF ty[g] = "Line" THEN 0 ELSE g]] :
              ty \in [1..m -> SegmentTypes]} : m \in 0..MaxGeo}

NoTrackers == [Nodes |-> <<>>, Tangents |-> <<>>, Curves |-> <<>>]

NoMouse == [component |-> <<>>,
            button1 |-> [state |-> "UP", dragging |-> FALSE],
            ctrlDown |-> FALSE]

Handler(op) == [op |-> op, result |-> "", count |-> -1, idx |-> -1,
                lower |-> -1, upper |-> -1, wires |-> -1]

\* alignment.get_curves(): the curve records of the geometry, in order
get_curves(geo) == SelectSeq(geo, LAMBDA g : g.Type # "Line")

\* a name that leaves the index out
TrackerNameKind(kind, i) == <<kind, 0>>

\* 'NODE-' + str(i) and int(name.split('-')[1])
TrackerName(kind, i) == <<kind, i>>

NameIndex(name) == name[2]

\* 0-based access to a tracker list
Node(i) == trackers.Nodes[i + 1]

Curve(i) == trackers.Curves[i + 1]

NumNodes == Len(trackers.Nodes)

NumCurves == Len(trackers.Curves)

\* the PI of geometry record g
GeoPI(g) == <<"PI", g>>

\* a loop that skips the first geometry record
curve_pisSkipFirst(geo) ==
    LET pis == SelectSeq([g \in 1..(Len(geo) - 1) |->
                             [Type |-> geo[g + 1].Type, g |-> g + 1]],
                         LAMBDA r : r.Type # "Line")
    IN  [i \in 1..Len(pis) |-> GeoPI(pis[i].g)]

\* the loop of build_trackers over the geometry: the PI of every record
\* that is not a Line, in geometry order
curve_pis(geo) ==
    LET pis == SelectSeq([g \in 1..Len(geo) |-> [Type |-> geo[g].Type, g |-> g]],
                         LAMBDA r : r.Type # "Line")
    IN  [i \in 1..Len(pis) |-> GeoPI(pis[i].g)]

\* AlignmentTracker._build_wire_tracker
_build_wire_tracker(wire_name, ns, nodes, points, select) ==
    set_points(set_selectability(WireTracker(wire_name), select),
               ns, points, nodes, <<>>)

\* only the first node marked
end_nodesFirst(n) == {1}

\* the nodes build_trackers marks as end nodes, of n nodes: Nodes[0] and
\* Nodes[-1]
end_nodes(n) == {1, n}

\* a slice that takes one element more
SliceInclusive(lo, hi, n) ==
    LET top == IF hi + 1 < n THEN hi + 1 ELSE n
    IN  [k \in 1..(IF top > lo THEN top - lo ELSE 0) |-> lo + k - 1]

\* the 0-based indices of the slice [lo:hi] of a list of n elements
Slice(lo, hi, n) ==
    LET top == IF hi < n THEN hi ELSE n
    IN  [k \in 1..(IF top > lo THEN top - lo ELSE 0) |-> lo + k - 1]

\* AlignmentTracker.build_trackers
build_trackers(geo) ==
    LET _nodes == <<<<"Start">>>> \o curve_pis(geo) \o <<<<"End">>>>
        n == Len(_nodes)
        nTangents == n - 1
        nCurves == nTangents - 1
        _curves == get_curves(geo)
        Nodes == [i \in 1..n |->
                    [name |-> TrackerName("NODE", i - 1),
                     point |-> _nodes[i],
                     is_end_node |-> i \in end_nodes(n),
                     selected |-> FALSE,
                     conditions |->
                        IF i - 2 >= 0 /\ i - 2 < nCurves
                        THEN <<TrackerName("CURVE", i - 2)>> ELSE <<>>]]
        Tangents == [i \in 1..nTangents |->
                       _build_wire_tracker(TrackerName("WIRE", i - 1), Nodes,
                                           Slice(i - 1, i + 1, n), <<>>, FALSE)]
        Curves == [i \in 1..nCurves |->
                     [name |-> TrackerName("CURVE", i - 1),
                      curve |-> _curves[i],
                      pi_nodes |-> Slice(i - 1, i + 2, n),
                      selectable |-> TRUE]]
    IN  [Nodes |-> Nodes, Tangents |-> Tangents, Curves |-> Curves]

\* the events BaseTracker.__init__ registers a callback for with the view
TrackerEvents == {"SoLocation2Event", "SoMouseButtonEvent"}

regVars == <<callbacks, view_callbacks, finalized>>

\* AlignmentTracker.__init__ up to the call of build_trackers
AlignInit ==
    /\ geometry \in Geometries
    /\ trackers = NoTrackers
    /\ drag_curves = <<>>
    /\ mouse = NoMouse
    /\ phase = "new"
    /\ last = Handler("__init__")
    /\ validated = <<>>
    /\ callbacks = TrackerEvents
    /\ view_callbacks = TrackerEvents
    /\ finalized = {}

AlignIdle ==
    /\ geometry = <<>>
    /\ trackers = NoTrackers
    /\ drag_curves = <<>>
    /\ mouse = NoMouse
    /\ phase = "idle"
    /\ last = Handler("")
    /\ validated = <<>>
    /\ callbacks = {}
    /\ view_callbacks = {}
    /\ finalized = {}

\* the rest of AlignmentTracker.__init__: self.build_trackers()
BuildTrackers ==
    /\ phase = "new"
    /\ trackers' = build_trackers(geometry)
    /\ phase' = "live"
    /\ last' = Handler("build_trackers")
    /\ UNCHANGED <<geometry, drag_curves, mouse, validated>>
    /\ UNCHANGED regVars
    /\ UNCHANGED notAlignVars

\* the component ids the view reports: none, any node, the first wire and
\* the first curve
Picks ==
    {<<>>}
    \cup {TrackerName("NODE", i) : i \in 0..(NumNodes - 1)}
    \cup {TrackerName("WIRE", i) : i \in 0..Min2(0, Len(trackers.Tangents) - 1)}
    \cup {TrackerName("CURVE", i) : i \in 0..Min2(0, NumCurves - 1)}

\* component ids that name no tracker: a node index past the node list, and
\* a node name without an index part
StrayPicks == {TrackerName("NODE", NumNodes), <<"NODE">>}

SelectedNodes == {i \in 0..(NumNodes - 1) : Node(i).selected}

\* an early return only under the modifier with several nodes selected
AbortPickOnlyMulti(ctrlDown, _i) == ctrlDown /\ _i > 1

\* the early returns of button_event on the number _i of selected nodes
AbortPick(ctrlDown, _i) ==
    IF ctrlDown /\ _i > 1 THEN TRUE
    ELSE IF _i > 0 THEN TRUE
    ELSE FALSE

\* the modifier selecting the nodes up to the picked one
PickedNodesBefore(ctrlDown, _idx) ==
    IF ctrlDown THEN 0.._idx ELSE {_idx}

\* _nodes of button_event: the nodes a pick of node _idx marks selected
PickedNodes(ctrlDown, _idx) ==
    IF ctrlDown THEN _idx..(NumNodes - 1) ELSE {_idx}

\* a lower bound reaching one curve further left
PickLowerThree(_idx) == Max2(0, _idx - 3)

\* _lower and _upper of button_event
PickLower(_idx) == Max2(0, _idx - 2)

PickUpper(ctrlDown, _idx) ==
    LET _max == IF ctrlDown THEN 0 ELSE 1
    IN  Min2(NumCurves, _idx + _max)

\* range(_lower, _upper) as a list
RangeSeq(lo, hi) == [i \in 1..Max2(0, hi - lo) |-> lo + i - 1]

\* AlignmentTracker.button_event, after the mouse state took the event
ButtonEvent ==
    /\ phase = "live"
    /\ "SoMouseButtonEvent" \in view_callbacks
    /\ UNCHANGED regVars
    /\ UNCHANGED notAlignVars
    /\ \E _pick \in Picks \cup StrayPicks, state \in {"DOWN", "UP"},
          ctrlDown \in BOOLEAN :
         LET _i == Cardinality(SelectedNodes)
             h == [Handler("button_event") EXCEPT !.count = _i]
         IN
         /\ mouse' = [component |-> _pick,
                      button1 |-> [state |-> state, dragging |-> FALSE],
                      ctrlDown |-> ctrlDown]
         /\ validated' = <<>>
         /\ UNCHANGED <<geometry, phase>>
         /\ IF _pick = <<>>
            THEN /\ last' = Handler("button_event")
                 /\ UNCHANGED <<trackers, drag_curves>>
            ELSE IF state = "UP"
            THEN /\ last' = Handler("button_event")
                 /\ UNCHANGED <<trackers, drag_curves>>
            ELSE IF AbortPick(ctrlDown, _i)
            THEN /\ last' = [h EXCEPT !.result = "abort"]
                 /\ UNCHANGED <<trackers, drag_curves>>
            ELSE IF _pick[1] # "NODE"
            THEN /\ last' = [h EXCEPT !.result = "other"]
                 /\ UNCHANGED <<trackers, drag_curves>>
            \* _pick.split('-')[1] and self.trackers['Nodes'][_idx] raise
            \* IndexError
            ELSE IF Len(_pick) < 2 \/ NameIndex(_pick) >= NumNodes
            THEN /\ last' = [h EXCEPT !.result = "error"]
                 /\ UNCHANGED <<trackers, drag_curves>>
            ELSE LET _idx == NameIndex(_pick)
                     _lower == PickLower(_idx)
                     _upper == PickUpper(ctrlDown, _idx)
                     picked == RangeSeq(_lower, _upper)
                 IN  /\ Len(drag_curves) + Len(picked) <= MaxDrag
                     /\ trackers' =
                          [trackers EXCEPT !.Nodes =
                             [n \in 1..NumNodes |->
                                IF (n - 1) \in PickedNodes(ctrlDown, _idx)
                                THEN [trackers.Nodes[n] EXCEPT !.selected = TRUE]
                                ELSE trackers.Nodes[n]]]
                     /\ drag_curves' = drag_curves \o picked
                     /\ last' = [h EXCEPT !.result = "node", !.idx = _idx,
                                          !.lower = _lower, !.upper = _upper]

\* curve.drag_arc['Tangent'] of a curve tracker
DragTangent(c) == Curve(c).curve.Tangent

\* AlignmentTracker.on_drag, after the mouse state took the move event
OnDrag ==
    /\ phase = "live"
    /\ "SoLocation2Event" \in view_callbacks
    /\ \E dragging \in BOOLEAN :
         /\ mouse' = [NoMouse EXCEPT !.button1.dragging = dragging]
         /\ IF ~dragging
            THEN validated' = <<>>
            ELSE LET _tans == <<0>> \o [i \in 1..Len(drag_curves) |->
                                          DragTangent(drag_curves[i])] \o <<0>>
                 IN  validated' =
                       [i \in 1..(Len(_tans) - 2) |->
                          [curve |-> drag_curves[i],
                           lt_tan |-> _tans[i],
                           rt_tan |-> _tans[i + 2]]]
    /\ last' = Handler("on_drag")
    /\ UNCHANGED <<geometry, trackers, drag_curves, phase>>
    /\ UNCHANGED regVars
    /\ UNCHANGED notAlignVars

\* the tangents with a drag in progress
Dragging == {t \in DOMAIN trackers.Tangents : trackers.Tangents[t].drag_node}

\* a drag gesture begins: AlignmentTracker.start_drag, which does nothing, and
\* the start_drag of every tangent
StartDrag ==
    /\ phase = "live"
    /\ "SoLocation2Event" \in view_callbacks
    /\ Dragging = {}
    /\ trackers' = [trackers EXCEPT !.Tangents =
                      [t \in DOMAIN trackers.Tangents |->
                         start_drag(trackers.Tangents[t], trackers.Nodes).wire]]
    /\ last' = Handler("start_drag")
    /\ validated' = <<>>
    /\ mouse' = NoMouse
    /\ UNCHANGED <<geometry, drag_curves, phase>>
    /\ UNCHANGED regVars
    /\ UNCHANGED notAlignVars

\* the gesture ends: AlignmentTracker.end_drag and the end_drag of every
\* tangent that is dragged; count is the length of the drag set it clears
\* and wires the number of tangents whose drag it ends
EndDrag ==
    /\ phase = "live"
    /\ "SoMouseButtonEvent" \in view_callbacks
    /\ drag_curves' = <<>>
    /\ trackers' = [trackers EXCEPT !.Tangents =
                      [t \in DOMAIN trackers.Tangents |->
                         IF t \in Dragging THEN end_drag(trackers.Tangents[t])
                         ELSE trackers.Tangents[t]]]
    /\ last' = [Handler("end_drag") EXCEPT !.count = Len(drag_curves),
                                           !.wires = Cardinality(Dragging)]
    /\ validated' = <<>>
    /\ mouse' = NoMouse
    /\ UNCHANGED <<geometry, phase>>
    /\ UNCHANGED regVars
    /\ UNCHANGED notAlignVars

\* the node trackers' own handling of a click elsewhere: every node deselected
DeselectNodes ==
    /\ phase = "live"
    /\ finalized = {}
    /\ SelectedNodes # {}
    /\ trackers' = [trackers EXCEPT !.Nodes =
                      [n \in 1..NumNodes |->
                         [trackers.Nodes[n] EXCEPT !.selected = FALSE]]]
    /\ last' = Handler("deselect")
    /\ validated' = <<>>
    /\ mouse' = NoMouse
    /\ UNCHANGED <<geometry, drag_curves, phase>>
    /\ UNCHANGED regVars
    /\ UNCHANGED notAlignVars

\* the names of the alignment tracker and of the trackers it owns
AlignmentName == <<"ALIGNMENT_TRACKER">>

OwnedNames ==
    {trackers.Nodes[i].name : i \in DOMAIN trackers.Nodes}
    \cup {trackers.Tangents[i].name : i \in DOMAIN trackers.Tangents}
    \cup {trackers.Curves[i].name : i \in DOMAIN trackers.Curves}

\* a finalize that leaves the view's registrations alone
remove_callbacksNone(view, cbs) == view

\* view.removeEventCallback for every entry of the registry
remove_callbacks(view, cbs) == view \ cbs

\* AlignmentTracker.finalize
Finalize ==
    /\ phase = "live"
    /\ finalized' = finalized \cup OwnedNames \cup {AlignmentName}
    /\ view_callbacks' = remove_callbacks(view_callbacks, callbacks)
    /\ callbacks' = {}
    /\ last' = Handler("finalize")
    /\ validated' = <<>>
    /\ mouse' = NoMouse
    /\ UNCHANGED <<geometry, trackers, drag_curves, phase>>
    /\ UNCHANGED notAlignVars

\* picking and dragging the curves
AlignNext ==
    \/ BuildTrackers
    \/ ButtonEvent
    \/ OnDrag
    \/ EndDrag
    \/ DeselectNodes

\* the edit session up to its end
SessionNext ==
    \/ BuildTrackers
    \/ ButtonEvent
    \/ OnDrag
    \/ EndDrag
    \/ DeselectNodes
    \/ Finalize

\* the drag gestures of the tangents
DragNext ==
    \/ BuildTrackers
    \/ ButtonEvent
    \/ StartDrag
    \/ EndDrag
    \/ DeselectNodes

vars == <<surfVars, alignVars, wireVars, taskVars, editVars>>

(***************************************************************************)
(* EDIT ALIGNMENT TASK                                                     *)
(*                                                                         *)
(* The document is the list of its objects, each with the LineColor and    *)
(* the DrawStyle of its view object ("none" where the view object has no   *)
(* LineColor).  "gray" is the colour (0.4, 0.4, 0.4) of STYLES.DISABLED.   *)
(* host holds what the task changes outside the document: the selection    *)
(* role of the scene graph, the event callbacks of the view, and the PI    *)
(* tracker and PI subtask objects.                                         *)
(***************************************************************************)
\* the objects a document holds before the session
ObjKinds ==
    {[type |-> "Object", hasLineColor |-> FALSE,
      LineColor |-> "none", DrawStyle |-> "none"]}
    \cup {[type |-> "Object", hasLineColor |-> TRUE,
           LineColor |-> c, DrawStyle |-> d] :
             c \in {"gray", "red"}, d \in {"Solid", "Dashed"}}

Documents == UNION {[1..m -> ObjKinds] : m \in 1..MaxObjs}

\* doc.addObject('App::DocumentObjectGroup', 'Temp')
TempGroup == [type |-> "App::DocumentObjectGroup", hasLineColor |-> FALSE,
              LineColor |-> "none", DrawStyle |-> "none"]

\* STYLES.DISABLED
DISABLED == <<"gray", "Solid">>

\* EditAlignmentTask.set_vobj_style
set_vobj_style(vobj, style) ==
    [vobj EXCEPT !.LineColor = style[1], !.DrawStyle = style[2]]

\* view_objects['line_colors']: the position and the LineColor of every
\* object whose view object has a LineColor
line_colors(d) ==
    LET withColor == SelectSeq([i \in 1..Len(d) |-> i],
                               LAMBDA i : d[i].hasLineColor)
    IN  [k \in 1..Len(withColor) |->
            <<withColor[k], d[withColor[k]].LineColor>>]

\* the loop of finish over the saved pairs: _v[0].LineColor = _v[1]
restore_colors(d, saved) ==
    [i \in 1..Len(d) |->
        IF \E k \in DOMAIN saved : saved[k][1] = i
        THEN LET k == CHOOSE k \in DOMAIN saved : saved[k][1] = i
             IN  [d[i] EXCEPT !.LineColor = saved[k][2]]
        ELSE d[i]]

\* a finish that leaves the callback with the view
removeEventCallbackKeep(cbs, call) == cbs

\* view.removeEventCallback
removeEventCallback(cbs, call) == cbs \ {call}

NoTask == [state |-> "none", before |-> <<>>, line_colors |-> <<>>,
           call |-> "None", pi_tracker |-> FALSE, pi_subtask |-> FALSE]

\* the calls the task has made so far: finish itself, and the releases
\* view.removeEventCallback, pi_tracker.finalize and pi_subtask.finish
NoReleases == [finish |-> 0, removeEventCallback |-> 0, finalize |-> 0,
               subtask_finish |-> 0]

NoHost == [selectionRole |-> 1, callbacks |-> {},
           pi_tracker |-> "none", pi_subtask |-> "none",
           releases |-> NoReleases]

TaskInit ==
    /\ doc \in Documents
    /\ host = NoHost
    /\ task = NoTask

TaskIdle ==
    /\ doc = <<>>
    /\ host = NoHost
    /\ task = [NoTask EXCEPT !.state = "idle"]

\* EditAlignmentTask.__init__.  wire_tracker.create is not defined by
\* wire_tracker.py: the call raises AttributeError and the construction
\* stops there (created = FALSE); with a create as the specification has it
\* the construction completes (created = TRUE).
Construct ==
    /\ task.state = "none"
    /\ \E created \in BOOLEAN :
         /\ doc' = [i \in 1..Len(doc) |->
                      IF doc[i].hasLineColor
                      THEN set_vobj_style(doc[i], DISABLED)
                      ELSE doc[i]] \o <<TempGroup>>
         /\ host' = [selectionRole |-> 0,
                     callbacks |-> IF created THEN {"SoEvent"} ELSE {},
                     pi_tracker |-> IF created THEN "live" ELSE "none",
                     pi_subtask |-> "live",
                     releases |-> NoReleases]
         /\ task' = [state |-> IF created THEN "constructed" ELSE "failed",
                     before |-> doc,
                     line_colors |-> line_colors(doc),
                     call |-> IF created THEN "SoEvent" ELSE "None",
                     pi_tracker |-> created,
                     pi_subtask |-> TRUE]
    /\ UNCHANGED notTaskVars

\* EditAlignmentTask.finish
Finish ==
    /\ task.state \in {"constructed", "finished"}
    /\ host.releases.finish < MaxFinish
    /\ doc' = restore_colors(doc, task.line_colors)
    /\ host' = [selectionRole |-> 1,
                callbacks |-> IF task.call # "None"
                              THEN removeEventCallback(host.callbacks, task.call)
                              ELSE host.callbacks,
                pi_tracker |-> IF task.pi_tracker THEN "finalized"
                               ELSE host.pi_tracker,
                pi_subtask |-> IF task.pi_subtask THEN "finished"
                               ELSE host.pi_subtask,
                releases |->
                   [finish |-> host.releases.finish + 1,
                    removeEventCallback |->
                       host.releases.removeEventCallback
                       + (IF task.call # "None" THEN 1 ELSE 0),
                    finalize |->
                       host.releases.finalize
                       + (IF task.pi_tracker THEN 1 ELSE 0),
                    subtask_finish |->
                       host.releases.subtask_finish
                       + (IF task.pi_subtask THEN 1 ELSE 0)]]
    /\ task' = [task EXCEPT !.state = "finished",
                            !.pi_tracker = FALSE,
                            !.pi_subtask = FALSE]
    /\ UNCHANGED notTaskVars

TaskNext ==
    \/ Construct
    \/ Finish

(***************************************************************************)
(* NODE EDIT TRACKER                                                       *)
(*                                                                         *)
(* commands/edit_tracker.py (editTracker) and commands/edit_tracker_bak.py *)
(* (EditTracker) hold the position only in coords.point, the field of a    *)
(* coin.SoCoordinate3: a list of single precision vectors.  Positions are  *)
(* App.Vector values of double precision; the model takes whole-numbered   *)
(* coordinates below 2^25, which a double holds exactly.                   *)
(***************************************************************************)
\* the value a single precision float holds for the whole number n,
\* 0 <= n < 2^25: exact up to 2^24, beyond that the nearest even number,
\* a tie going to the multiple of 4
ToFloat32(n) ==
    IF n <= Float32Exact \/ n % 2 = 0 THEN n
    ELSE IF (n + 1) % 4 = 0 THEN n + 1
    ELSE n - 1

\* coords.point.setValue((pos.x, pos.y, pos.z))
setValue(pos) == <<ToFloat32(pos[1]), ToFloat32(pos[2]), ToFloat32(pos[3])>>

\* set(pos)
edit_set(e, pos) == [e EXCEPT !.coords = setValue(pos)]

\* get(): App.Vector(p[0], p[1], p[2]) of coords.point.getValues()[0]
edit_get(e) == e.coords

\* App.Vector.add
VectorAdd(p, d) == <<p[1] + d[1], p[2] + d[2], p[3] + d[3]>>

\* move(delta): self.set(self.get().add(delta))
edit_move(e, delta) == edit_set(e, VectorAdd(edit_get(e), delta))

\* the positions handed to the tracker and to set
EditPositions ==
    {<<x, y, 0>> : x \in {0, 1, Float32Exact, Float32Exact + 1,
                          Float32Exact + 3},
                   y \in {0, 1}}

\* the offsets handed to move
EditDeltas == {<<1, 0, 0>>, <<2, 0, 0>>, <<0, 1, 0>>}

\* the method of the edit tracker that ran last: its argument, the position
\* get() returned before it ran, and the colour and marker before it ran
EHandler(op) ==
    [op |-> op, arg |-> <<>>, before |-> <<>>, style |-> <<>>, moves |-> 0]

\* EditTracker.__init__: the marker is set closed, the colour is the default
EditInit ==
    /\ \E pos \in EditPositions :
         edit = [coords |-> setValue(pos), color |-> "default",
                 marker |-> "CIRCLE"]
    /\ elast = EHandler("__init__")

EditIdle ==
    /\ edit = [coords |-> <<0, 0, 0>>, color |-> "none", marker |-> "none"]
    /\ elast = EHandler("")

\* a call of set
EditSet ==
    /\ \E pos \in EditPositions :
         /\ edit' = edit_set(edit, pos)
         /\ elast' = [op |-> "set", arg |-> pos, before |-> edit_get(edit),
                      style |-> <<edit.color, edit.marker>>, moves |-> 0]
    /\ UNCHANGED notEditVars

\* a call of move, at most MaxMoves of them since the last set
EditMove ==
    /\ elast.moves < MaxMoves
    /\ \E delta \in EditDeltas :
         /\ edit' = edit_move(edit, delta)
         /\ elast' = [op |-> "move", arg |-> delta, before |-> edit_get(edit),
                      style |-> <<edit.color, edit.marker>>,
                      moves |-> elast.moves + 1]
    /\ UNCHANGED notEditVars

\* EditTracker.set_selected
EditSetSelected ==
    /\ \E selected \in BOOLEAN :
         edit' = [edit EXCEPT !.color = IF selected THEN "green" ELSE "white"]
    /\ elast' = [EHandler("set_selected") EXCEPT !.moves = elast.moves]
    /\ UNCHANGED notEditVars

\* EditTracker.set_marker
EditSetMarker ==
    /\ \E is_open \in BOOLEAN :
         edit' = [edit EXCEPT !.marker = IF is_open THEN "circle" ELSE "CIRCLE"]
    /\ elast' = [EHandler("set_marker") EXCEPT !.moves = elast.moves]
    /\ UNCHANGED notEditVars

EditNext ==
    \/ EditSet
    \/ EditMove
    \/ EditSetSelected
    \/ EditSetMarker

SurfaceInit == SurfInit /\ AlignIdle /\ WireIdle /\ TaskIdle /\ EditIdle

SpecSurface == SurfaceInit /\ [][SurfNext]_vars

AlignmentInit == AlignInit /\ SurfIdle /\ WireIdle /\ TaskIdle /\ EditIdle

SpecAlignment == AlignmentInit /\ [][AlignNext]_vars

SpecSession == AlignmentInit /\ [][SessionNext]_vars

\* the alignments whose tangents are dragged
DragInit == AlignmentInit /\ Len(geometry) <= MaxDragGeo

SpecDrag == DragInit /\ [][DragNext]_vars

WireTrackerInit == WireInit /\ SurfIdle /\ AlignIdle /\ TaskIdle /\ EditIdle

SpecWire == WireTrackerInit /\ [][WireNext]_vars

SpecWirePoints == WireTrackerInit /\ [][WirePointsNext]_vars

EditTaskInit == TaskInit /\ SurfIdle /\ AlignIdle /\ WireIdle /\ EditIdle

SpecTask == EditTaskInit /\ [][TaskNext]_vars

EditTrackerInit == EditInit /\ SurfIdle /\ AlignIdle /\ WireIdle /\ TaskIdle

SpecEdit == EditTrackerInit /\ [][EditNext]_vars

(***************************************************************************)
(* PROPERTIES OF THE SURFACE (checked under SpecSurface)                   *)
(***************************************************************************)

\* C1: after any sequence of writes to Points, MaxLength, MaxAngle and
\* ContourInterval, every triangle held in Triangles is also held in Delaunay.
C1_TrianglesSubsetDelaunay == TripleSet(Triangles) \subseteq TripleSet(Delaunay)

\* C2: once the recompute chain of a write has finished, ContourPoints and
\* ContourVertices equal the contour extraction applied to the current Points,
\* Triangles and ContourInterval.
C2_ContoursCurrent ==
    LET r == contour_points(Points, Triangles, ContourInterval)
    IN  ContourPoints = r.coords /\ ContourVertices = r.num_vert

\* C3: Delaunay is always the triangulation of the current Points; in
\* particular it is empty when Points is empty.
C3_DelaunayOfPoints == Delaunay = triangulate(Points)

\* C4: when Points is a non-empty list that yields no triangles, Triangles
\* and the face index array pushed to the renderer are empty.
C4_DegenerateRendersNothing ==
    (Points # <<>> /\ triangulate(Points) = <<>>)
        => (Triangles = <<>> /\ coordIndex = <<>>)

(***************************************************************************)
(* PROPERTIES OF THE ALIGNMENT TRACKER (checked under SpecAlignment)       *)
(***************************************************************************)
\* the number k of non-Line segments of the alignment
NumCurveSegments ==
    Cardinality({g \in DOMAIN geometry : geometry[g].Type # "Line"})

\* the step is a button-down event whose pick is a node
NodePickStep ==
    /\ last'.op = "button_event"
    /\ mouse'.button1.state = "DOWN"
    /\ mouse'.component # <<>>
    /\ mouse'.component[1] = "NODE"
    /\ mouse'.component \notin StrayPicks

\* the node such a step picks
PickedIdx == NameIndex(mouse'.component)

\* the state follows an accepted button-down pick of a node
AfterAcceptedPick == last.op = "button_event" /\ last.result = "node"

\* C5: for an alignment with k non-Line segments build_trackers builds k+2
\* nodes (start, the curve PIs in geometry order, end), k+1 wires, k curves.
C5_TrackerCounts ==
    phase = "live" =>
        LET k == NumCurveSegments
            pts == [i \in 1..NumNodes |-> trackers.Nodes[i].point]
        IN  /\ NumNodes = k + 2
            /\ Len(trackers.Tangents) = k + 1
            /\ NumCurves = k
            /\ pts[1] = <<"Start">>
            /\ pts[k + 2] = <<"End">>
            /\ \A i \in 2..(k + 1) :
                  /\ pts[i][1] = "PI"
                  /\ geometry[pts[i][2]].Type # "Line"
                  /\ i > 2 => pts[i - 1][2] < pts[i][2]

C5_Witness ==
    /\ phase = "live"
    /\ NumCurveSegments = 1
    /\ Len(geometry) = 3
    /\ NumNodes = 3
    /\ Len(trackers.Tangents) = 2
    /\ NumCurves = 1

\* C6 as stated: a button-down pick on a node is ignored only when more than
\* one node is selected and the modifier is held; otherwise the node is selected.
C6_IgnoredOnlyUnderMultiSelect ==
    [][NodePickStep =>
         IF mouse'.ctrlDown /\ Cardinality(SelectedNodes) > 1
         THEN UNCHANGED <<trackers, drag_curves>>
         ELSE trackers'.Nodes[PickedIdx + 1].selected]_vars

\* C6 amended: a button-down pick on a node is ignored whenever at least one
\* node is already selected, with or without the modifier; it selects the
\* node when no node is selected.
C6_IgnoredWhenAnySelected ==
    [][NodePickStep =>
         IF SelectedNodes # {}
         THEN UNCHANGED <<trackers, drag_curves>>
         ELSE trackers'.Nodes[PickedIdx + 1].selected]_vars

C6_Witness ==
    /\ last.op = "button_event"
    /\ last.result = "abort"
    /\ last.count = 1
    /\ ~mouse.ctrlDown
    /\ mouse.component[1] = "NODE"
    /\ mouse.component \notin StrayPicks
    /\ ~Node(NameIndex(mouse.component)).selected

\* C7: an accepted pick on node i marks selected exactly {i} without the
\* modifier and exactly {i, ..., last} with it.
C7_SelectedByPick ==
    [][(NodePickStep /\ SelectedNodes = {}) =>
         {i \in 0..(NumNodes - 1) : trackers'.Nodes[i + 1].selected}
            = IF mouse'.ctrlDown THEN PickedIdx..(NumNodes - 1)
                                 ELSE {PickedIdx}]_vars

C7_Witness ==
    /\ AfterAcceptedPick
    /\ mouse.ctrlDown
    /\ last.idx > 0
    /\ last.idx < NumNodes - 1
    /\ SelectedNodes = last.idx..(NumNodes - 1)

\* the curve has node i among its three PI nodes
Neighbours(c, i) == i \in Range(Curve(c).pi_nodes)

\* C8 as stated: after an accepted pick the drag set holds 1 or 2 curve
\* trackers, each a curve that neighbours the picked node.
C8_OneOrTwoNeighbours ==
    AfterAcceptedPick =>
        /\ Len(drag_curves) \in {1, 2}
        /\ \A j \in DOMAIN drag_curves : Neighbours(drag_curves[j], last.idx)

\* C8 amended: an accepted pick appends 0 to 3 curve trackers to the drag
\* set, each a curve that has the picked node among its PI nodes; what the
\* drag set held before the pick stays in it.
C8_PickAppendsNeighbours ==
    [][(NodePickStep /\ SelectedNodes = {}) =>
         LET before == Len(drag_curves)
             after == Len(drag_curves')
         IN  /\ after - before \in 0..3
             /\ SubSeq(drag_curves', 1, before) = drag_curves
             /\ \A j \in (before + 1)..after :
                   Neighbours(drag_curves'[j], PickedIdx)]_vars

C8_Witness ==
    /\ AfterAcceptedPick
    /\ ~mouse.ctrlDown
    /\ drag_curves = <<last.idx - 2, last.idx - 1, last.idx>>

\* the curves validate was called on, in call order
ValidatedCurves == [i \in DOMAIN validated |-> validated[i].curve]

\* C9: a drag event with button 1 dragging calls validate exactly once on
\* every curve of the drag set, in ascending curve order; without button 1
\* dragging it calls validate on no curve.
C9_ValidateOnceAscending ==
    last.op = "on_drag" =>
        IF mouse.button1.dragging
        THEN /\ Range(ValidatedCurves) = Range(drag_curves)
             /\ \A i, j \in DOMAIN validated :
                   i < j => ValidatedCurves[i] < ValidatedCurves[j]
        ELSE validated = <<>>

\* C10: during a drag each curve is validated with lt_tan the drag tangent
\* of the curve to its left in the alignment and rt_tan that of the curve to
\* its right, 0.0 only where the alignment has no such curve.
C10_NeighbourTangents ==
    (last.op = "on_drag" /\ mouse.button1.dragging) =>
        \A i \in DOMAIN validated :
            LET c == validated[i].curve
            IN  /\ validated[i].lt_tan =
                      (IF c - 1 >= 0 THEN DragTangent(c - 1) ELSE 0)
                /\ validated[i].rt_tan =
                      (IF c + 1 < NumCurves THEN DragTangent(c + 1) ELSE 0)

(***************************************************************************)
(* FURTHER PROPERTIES OF THE SURFACE (checked under SpecSurface)           *)
(***************************************************************************)
\* the data properties of the surface
SurfaceProps == {"Points", "Delaunay", "Triangles", "MaxLength", "MaxAngle",
                 "ContourInterval", "ContourPoints", "ContourVertices"}

\* the derived properties after one more notification of prop
Renotified(prop) ==
    LET o == onChanged([SurfaceObj EXCEPT !.calls = NoCalls], prop)
    IN  <<o.Delaunay, o.Triangles, o.ContourPoints, o.ContourVertices>>

\* C21: when the onChanged call of an external write has returned, Delaunay,
\* Triangles, ContourPoints and ContourVertices hold their final values for
\* that write: every nested recompute ran inside the call, so no further
\* notification of any property changes them.
C21_NoPartialRecompute ==
    \A prop \in SurfaceProps :
        Renotified(prop) = <<Delaunay, Triangles, ContourPoints, ContourVertices>>

\* a write of Points has run the whole nested chain and left triangles and
\* contours
C21_Witness ==
    /\ calls.triangulate = 1
    /\ calls.test_delaunay = 1
    /\ calls.contour_points = 2
    /\ Triangles # <<>>
    /\ ContourPoints # <<>>

\* the vertex indices held in a flat index list
Indices(flat) == {flat[i] : i \in DOMAIN flat}

\* C26: after any sequence of property writes every vertex index held in
\* Delaunay and in Triangles is an index into the current Points, also after
\* Points was replaced by a shorter, an empty or a degenerate list.
C26_ValidVertexIndices ==
    \A i \in Indices(Delaunay) \cup Indices(Triangles) : i >= 0 /\ i < Len(Points)

\* C27: one external write runs a chain of at most one triangulation, one
\* triangle filtering and two contour extractions; the notifications of
\* ContourPoints and ContourVertices start nothing.
C27_FiniteChain ==
    /\ calls.triangulate <= 1
    /\ calls.test_delaunay <= 1
    /\ calls.contour_points <= 2
    /\ \A prop \in {"ContourPoints", "ContourVertices"} :
          onChanged([SurfaceObj EXCEPT !.calls = NoCalls], prop).calls = NoCalls

\* the longest chain: a write of Points that triangulates, filters and
\* extracts contours twice
C27_Witness ==
    /\ calls = [triangulate |-> 1, test_delaunay |-> 1, contour_points |-> 2]
    /\ Delaunay # <<>>

(***************************************************************************)
(* PROPERTIES OF THE EDIT SESSION (checked under SpecSession, SpecAlignment*)
(* and SpecDrag)                                                           *)
(***************************************************************************)
\* C14: AlignmentTracker.finalize finalizes every node, wire and curve
\* tracker it owns, removes every callback it registered from the view and
\* leaves its registry empty; no event handler of the tracker runs after it.
C14_FinalizeReleasesAll ==
    [][/\ last'.op = "finalize" =>
             /\ OwnedNames \subseteq finalized'
             /\ view_callbacks' \cap TrackerEvents = {}
             /\ callbacks' = {}
       /\ AlignmentName \in finalized => last'.op = "finalize"]_vars

\* finalize ran on a tracker set with a curve, after a pick filled the drag
\* set
C14_Witness ==
    /\ last.op = "finalize"
    /\ NumCurves >= 1
    /\ drag_curves # <<>>
    /\ SelectedNodes # {}
    /\ AlignmentName \in finalized

\* C17: a button event whose pick names no existing tracker is ignored: no
\* error escapes the handler, and the selection and the drag set stay as they
\* are.
C17_StrayPickIgnored ==
    [][(last'.op = "button_event" /\ mouse'.component \in StrayPicks) =>
          /\ last'.result # "error"
          /\ UNCHANGED <<trackers, drag_curves>>]_vars

\* C20: after end_drag the drag set of the alignment tracker is empty and no
\* tangent holds a drag node, whatever picks and drags came before.
C20_DragDataCleared ==
    last.op = "end_drag" => (drag_curves = <<>> /\ Dragging = {})

\* end_drag cleared a drag set that held curves and ended the drag of a
\* tangent
C20_Witness ==
    /\ last.op = "end_drag"
    /\ last.count > 0
    /\ last.wires > 0
    /\ drag_curves = <<>>

(***************************************************************************)
(* PROPERTIES OF THE WIRE TRACKER (checked under SpecWire)                 *)
(***************************************************************************)
\* the bound nodes of the wire, as positions in selection_nodes, that are
\* selected
SelectedBound == {j \in DOMAIN wire.selection_nodes :
                    wnodes[wire.selection_nodes[j] + 1].selected}

ButtonDownOnWire == wlast.op = "button_event" /\ wlast.state = "DOWN"

\* C11: a button-down event on a wire with bound nodes that is not itself
\* selected makes the wire FULL if every bound node is selected and there are
\* as many bound nodes as points, and PARTIAL otherwise.
C11_FullOrPartialOnButtonDown ==
    (ButtonDownOnWire /\ wire.selection_nodes # <<>> /\ wlast.entry = "NONE")
        => wire.selected =
              (IF /\ Cardinality(SelectedBound) = Len(wire.selection_nodes)
                  /\ Len(wire.selection_nodes) = Len(wire.points)
               THEN "FULL" ELSE "PARTIAL")

\* C12: after a button-down event on a wire whose selection is FULL, every
\* node bound to the wire is selected.
C12_FullWireSelectsNodes ==
    (ButtonDownOnWire /\ wlast.entry = "FULL")
        => Cardinality(SelectedBound) = Len(wire.selection_nodes)

\* a fully selected wire with two bound nodes, none of them selected, took a
\* button-down event
C12_Witness ==
    /\ ButtonDownOnWire
    /\ wlast.entry = "FULL"
    /\ wlast.count = 0
    /\ Len(wire.selection_nodes) = 2

\* the point indices of the selected bound nodes
SelectedBoundIndices ==
    {wire.selection_indices[j] :
        j \in SelectedBound \cap DOMAIN wire.selection_indices}

\* C13 as stated: start_drag starts a drag only if the wire is selected or a
\* bound node is selected, and whenever fewer bound nodes are selected than
\* the wire has points the wire is marked partially selected and partial_idx
\* holds exactly the point indices of the selected bound nodes.
C13_PartialWheneverFewerSelected ==
    wlast.op = "start_drag" =>
        /\ wlast.result = "started" => (wlast.entry # "NONE" \/ wlast.count > 0)
        /\ wlast.count < Len(wire.points) =>
              /\ wire.selected = "PARTIAL"
              /\ Range(wire.partial_idx) = SelectedBoundIndices

\* C13 amended: start_drag starts a drag only if the wire is selected or a
\* bound node is selected, and whenever it starts the drag with fewer bound
\* nodes selected than the wire has points the wire is marked partially
\* selected and partial_idx holds exactly the point indices of the selected
\* bound nodes, one entry each.
C13_PartialWhenDragStarts ==
    wlast.op = "start_drag" =>
        /\ wlast.result = "started" => (wlast.entry # "NONE" \/ wlast.count > 0)
        /\ (wlast.result = "started" /\ wlast.count < Len(wire.points)) =>
              /\ wire.selected = "PARTIAL"
              /\ Len(wire.partial_idx) = wlast.count
              /\ Range(wire.partial_idx) = SelectedBoundIndices

\* a drag started on an unselected wire with one of its two bound nodes
\* selected
C13_Witness ==
    /\ wlast.op = "start_drag"
    /\ wlast.result = "started"
    /\ wlast.entry = "NONE"
    /\ wlast.count = 1
    /\ Len(wire.selection_nodes) = 2
    /\ wire.drag_node

BoundPoint(j) ==
    IF wire.selection_indices[j] = -1 THEN Len(wire.points)
    ELSE wire.selection_indices[j] + 1

AllTrackerNames ==
    {trackers.Nodes[i].name : i \in 1..NumNodes}
    \cup {trackers.Tangents[i].name : i \in 1..Len(trackers.Tangents)}
    \cup {trackers.Curves[i].name : i \in 1..NumCurves}

\* C23: the trackers build_trackers builds have pairwise distinct names, and
\* the index in the name of a node is the node's position in Nodes, so the
\* index read from the name 'NODE-i' resolves to that node.
C23_NamesResolve ==
    phase = "live" =>
        /\ Cardinality(AllTrackerNames)
              = NumNodes + Len(trackers.Tangents) + NumCurves
        /\ \A i \in 0..(NumNodes - 1) :
              /\ Node(i).name = TrackerName("NODE", i)
              /\ NameIndex(Node(i).name) = i
        /\ \A i \in 0..(Len(trackers.Tangents) - 1) :
              trackers.Tangents[i + 1].name = TrackerName("WIRE", i)
        /\ \A i \in 0..(NumCurves - 1) :
              Curve(i).name = TrackerName("CURVE", i)

\* trackers of an alignment with curves are built, and a node was picked
C23_Witness ==
    /\ phase = "live"
    /\ NumCurves >= 2
    /\ last.op = "button_event"
    /\ mouse.component \in {Node(i).name : i \in 0..(NumNodes - 1)}

\* C24: after build_trackers exactly two nodes are end nodes, the first and
\* the last, also when the alignment has no curves.
C24_EndNodes ==
    phase = "live" =>
        /\ {i \in 0..(NumNodes - 1) : Node(i).is_end_node} = {0, NumNodes - 1}
        /\ Cardinality({i \in 0..(NumNodes - 1) : Node(i).is_end_node}) = 2

\* trackers of an alignment with interior nodes are built
C24_Witness ==
    /\ phase = "live"
    /\ NumNodes >= 3
    /\ ~Node(1).is_end_node

\* trackers of an alignment without curves are built
C24_WitnessNoCurves ==
    /\ phase = "live"
    /\ NumCurves = 0
    /\ NumNodes = 2

\* C25: curve tracker i references exactly the nodes i, i+1, i+2; wire i is
\* bound to exactly the nodes i and i+1; the conditions of node i+1 name
\* exactly curve i; the two end nodes have no condition.
C25_TrackerTopology ==
    phase = "live" =>
        /\ NumCurves = NumNodes - 2
        /\ Len(trackers.Tangents) = NumNodes - 1
        /\ \A i \in 0..(NumCurves - 1) :
              /\ Curve(i).pi_nodes = <<i, i + 1, i + 2>>
              /\ Node(i + 1).conditions = <<Curve(i).name>>
        /\ \A i \in 0..(Len(trackers.Tangents) - 1) :
              trackers.Tangents[i + 1].selection_nodes = <<i, i + 1>>
        /\ Node(0).conditions = <<>>
        /\ Node(NumNodes - 1).conditions = <<>>

\* trackers with two curves and three tangents are built
C25_Witness ==
    /\ phase = "live"
    /\ NumCurves = 2
    /\ Len(trackers.Tangents) = 3
    /\ Node(2).conditions = <<TrackerName("CURVE", 1)>>

\* C28: the drag set never holds the same curve twice, and it is empty
\* whenever a pick of a node starts filling it, for every sequence of picks,
\* releases, drags, end_drag and deselections.
C28_DragSetFresh ==
    [][/\ \A i, j \in 1..Len(drag_curves') :
             i # j => drag_curves'[i] # drag_curves'[j]
       /\ (last'.op = "button_event" /\ last'.result = "node")
             => drag_curves = <<>>]_vars

(***************************************************************************)
(* FURTHER PROPERTIES OF THE WIRE TRACKER (checked under SpecWire)         *)
(***************************************************************************)
\* C29: whenever a wire has bound node trackers, selection_indices holds
\* exactly one entry per bound node after every call of set_points, so
\* start_drag finds the point index of every selected bound node.
C29_IndexPerBoundNode ==
    /\ wire.selection_nodes # <<>> =>
          /\ Len(wire.selection_indices) = Len(wire.selection_nodes)
          /\ \A j \in DOMAIN wire.selection_nodes :
                BoundSelected(wire, wnodes)[j] => j <= Len(wire.selection_indices)
    /\ (wlast.op = "start_drag" /\ wire.selection_nodes # <<>> /\ wire.points # <<>>)
          => wlast.result # "error"

\* C30: start_drag never demotes a fully selected wire: when the selection
\* is FULL before start_drag and the whole wire is dragged (in particular a
\* selected wire without bound node trackers), the selection is FULL after
\* start_drag and no partial-drag index set is recorded.
C30_FullStaysFull ==
    [][(/\ wlast'.op = "start_drag"
        /\ wlast'.result = "started"
        /\ wire.selected = "FULL"
        /\ \/ wire.selection_nodes = <<>>
           \/ \A j \in DOMAIN wire.selection_nodes :
                 BoundSelected(wire, wnodes)[j])
       => (wire'.selected = "FULL" /\ wire'.partial_idx = wire.partial_idx)]_vars

(***************************************************************************)
(* PROPERTIES OF THE NODE EDIT TRACKER (checked under SpecEdit)            *)
(***************************************************************************)
\* C22: get() after set(p) returns p; get() after move(d) returns the
\* position held before the move plus d; move changes nothing but the
\* position.
C22_SetGetMove ==
    /\ elast.op = "set" => edit_get(edit) = elast.arg
    /\ elast.op = "move" =>
          /\ edit_get(edit) = VectorAdd(elast.before, elast.arg)
          /\ <<edit.color, edit.marker>> = elast.style

====
